---------------------------- MODULE Spec2Model ----------------------------
(***************************************************************************)
(* State-machine model of torchrl's on-policy PPO learner                  *)
(* (torchrl/learners/ppo_learner.py), its off-policy DQN learner           *)
(* (torchrl/learners/deep_q_learner.py) and the PPO training driver        *)
(* (experiments/ppo.py).                                                   *)
(*                                                                         *)
(* Floating-point quantities are fixed-point integers: a real x is the     *)
(* integer x * SCALE (rewards, values, returns, ratios, losses, gamma,     *)
(* lambda, clip_ratio), log-probabilities are x * 10000, and epsilon and  *)
(* exp(-steps/temperature) are x * ESCALE.                                 *)
(*                                                                         *)
(* Spec       : a client calls the public methods of one learner object    *)
(*              (a BasePPOLearner or a DeepQLearner) with arbitrary        *)
(*              arguments from small sets.                                 *)
(* SpecDriver : experiments/ppo.py main()/train() run statement by         *)
(*              statement on a BasePPOLearner.                             *)
(***************************************************************************)
EXTENDS Integers, Sequences, FiniteSets, TLC

VARIABLES
  sut,          \* which object/program this behaviour exercises: "ppo", "dqn", "driver"
  theta,        \* parameters of the network (ac_net / q_net), an index into the tables
  grad,         \* number of backward passes accumulated in the gradient buffers
  optLog,       \* optimizer operations issued by the most recent learn call, in order
  applied,      \* number of accumulated backward passes the most recent step() applied
  lmbda,        \* BasePPOLearner.lmbda
  args,         \* the arguments the client passes to the PPO learner's methods
  lastCall,     \* the most recent method call on the learner with its result
  memory,       \* DeepQLearner._memory (oldest first)
  steps,        \* DeepQLearner._steps
  eps,          \* DeepQLearner._eps
  eps_min,      \* DeepQLearner.eps_min
  eps_max,      \* DeepQLearner.eps_max
  temperature,  \* DeepQLearner.temperature
  drv           \* experiments/ppo.py: the locals of main()/train() and the runner/logger

vars == <<sut, theta, grad, optLog, applied, lmbda, args, lastCall,
          memory, steps, eps, eps_min, eps_max, temperature, drv>>

learnerVars == <<theta, grad, optLog, applied, lmbda>>
dqnVars == <<memory, steps, eps, eps_min, eps_max, temperature>>

-----------------------------------------------------------------------------
(* Bounds of the model *)

MaxLen == 3          \* longest segment passed to compute_returns
MaxBatch == 2        \* largest batch passed to learn
MaxSteps == 6        \* cap on DeepQLearner._steps
MaxPpoEpochs == 2    \* largest args.ppo_epochs

(* Fixed-point representation *)

SCALE == 1000
ESCALE == 10000

FMul(a, b) == (a * b) \div SCALE

RECURSIVE SumSeq(_)
SumSeq(s) == IF s = <<>> THEN 0 ELSE Head(s) + SumSeq(Tail(s))

Mean(s) == SumSeq(s) \div Len(s)

MinOf(a, b) == IF a <= b THEN a ELSE b
MaxOf(a, b) == IF a >= b THEN a ELSE b

Reverse(s) == [i \in 1..Len(s) |-> s[Len(s) + 1 - i]]

RECURSIVE SeqsUpTo(_, _)
SeqsUpTo(S, n) ==
  IF n = 0 THEN {<<>>}
  ELSE LET shorter == SeqsUpTo(S, n - 1)
       IN shorter \cup {Append(s, x) : s \in {t \in shorter : Len(t) = n - 1}, x \in S}

-----------------------------------------------------------------------------
(* The function approximator (ActorCriticNet / q_net): an opaque table     *)
(* indexed by the parameter state theta.                                   *)

Thetas == 0..1
Obs == {0, 1}
Acts == {0, 1}
Rewards == {0, 1 * SCALE}
Values == {0, SCALE \div 2}
LogProbs == {-16094, -12040}      \* ln 0.2, ln 0.3

\* value head of ac_net(obs)
Value(th, o) ==
  IF th = 0 THEN (IF o = 0 THEN 0 ELSE SCALE \div 2)
            ELSE (IF o = 0 THEN SCALE \div 2 ELSE 0)

\* dist.log_prob(action) of ac_net(obs)
LogProb(th, o, a) == IF (th + o + a) % 2 = 0 THEN -16094 ELSE -12040

\* dist.entropy() of ac_net(obs)
Entropy(th, o) == IF (th + o) % 2 = 0 THEN 500 ELSE 611

\* torch.exp on a difference of two log-probabilities, rounded to 1/SCALE
ExpFix(d) ==
  CASE d = 0     -> SCALE
    [] d = 4054  -> 1500
    [] d = -4054 -> 667

-----------------------------------------------------------------------------
(* BasePPOLearner *)

Gamma == 990
ClipRatio == 200
Lmbdas == {10, SCALE}

\* mutant: the bootstrap value is the critic's estimate even after a terminal step
ValuesAlwaysBootstrapped(th, obs, next_obs, done) ==
  Append([t \in 1..Len(obs) |-> Value(th, obs[t])],
         Value(th, next_obs[Len(next_obs)]))

\* ppo_learner.py 43-54: critic values of the segment plus the bootstrap value
ValuesWithBootstrap(th, obs, next_obs, done) ==
  LET values == [t \in 1..Len(obs) |-> Value(th, obs[t])]
  IN IF ~done[Len(done)]
     THEN Append(values, Value(th, next_obs[Len(next_obs)]))
     ELSE Append(values, 0)

\* ppo_learner.py 58-61: the backward loop, step = Len(reward) down to 1
RECURSIVE GaeLoop(_, _, _, _, _, _)
GaeLoop(step, gae, returns, reward, values, lm) ==
  IF step = 0 THEN returns
  ELSE LET delta == reward[step] + FMul(Gamma, values[step + 1]) - values[step]
           g     == delta + FMul(FMul(Gamma, lm), gae)
       IN GaeLoop(step - 1, g, [returns EXCEPT ![step] = g + values[step]],
                  reward, values, lm)

\* ppo_learner.py 63-64: returns = returns[::-1]
FinalOrder(returns) == Reverse(returns)

\* ppo_learner.py 36-66
compute_returns(th, lm, obs, action, reward, next_obs, done) ==
  LET values  == ValuesWithBootstrap(th, obs, next_obs, done)
      returns == GaeLoop(Len(reward), 0, [t \in 1..Len(reward) |-> 0],
                         reward, values, lm)
  IN FinalOrder(returns)

\* ppo_learner.py 68-77
compute_old_data(th, obs, action) ==
  [values    |-> [i \in 1..Len(obs) |-> Value(th, obs[i])],
   log_probs |-> [i \in 1..Len(obs) |-> LogProb(th, obs[i], action[i])]]

\* torch.clamp
Clamp(x, lo, hi) == IF x < lo THEN lo ELSE IF x > hi THEN hi ELSE x

\* mutant: the advantage is taken against the value computed in this call
AdvantageAgainstCurrentValue(ret, old_value, value) == ret - value

\* ppo_learner.py 96: old_advantages = return_tensor - old_values
Advantage(ret, old_value, value) == ret - old_value

\* ppo_learner.py 100: torch.cat([surr1, surr2], dim=1).min(dim=1)[0]
RowMin(surr1, surr2) == MinOf(surr1, surr2)

\* ppo_learner.py 92-104: the three loss components
Losses(th, obs, action, returns, old_values, old_log_probs) ==
  LET N      == Len(obs)
      values == [i \in 1..N |-> Value(th, obs[i])]
      newlp  == [i \in 1..N |-> LogProb(th, obs[i], action[i])]
      ratio  == [i \in 1..N |-> ExpFix(newlp[i] - old_log_probs[i])]
      adv    == [i \in 1..N |-> Advantage(returns[i], old_values[i], values[i])]
      surr1  == [i \in 1..N |-> FMul(ratio[i], adv[i])]
      surr2  == [i \in 1..N |->
                   FMul(Clamp(ratio[i], SCALE - ClipRatio, SCALE + ClipRatio), adv[i])]
  IN [actor   |-> -Mean([i \in 1..N |-> RowMin(surr1[i], surr2[i])]),
      critic  |-> Mean([i \in 1..N |-> FMul(returns[i] - values[i], returns[i] - values[i])]),
      entropy |-> Mean([i \in 1..N |-> Entropy(th, obs[i])])]

\* mutant: the gradients are never zeroed
PPOOptimizerOpsWithoutZeroGrad == <<"backward", "step">>

\* ppo_learner.py 108-110: zero_grad(); backward(); step()
PPOOptimizerOps == <<"zero_grad", "backward", "step">>

\* effect of a sequence of optimizer operations on <<grad, applied>>
RECURSIVE RunOps(_, _, _)
RunOps(ops, g, ap) ==
  IF ops = <<>> THEN <<g, ap>>
  ELSE CASE Head(ops) = "zero_grad" -> RunOps(Tail(ops), 0, ap)
         [] Head(ops) = "backward"  -> RunOps(Tail(ops), g + 1, ap)
         [] Head(ops) = "step"      -> RunOps(Tail(ops), g, g)

\* number of parameters learn declares after self (ppo_learner.py 79-80)
LearnArity == 8

NoCall == [kind |-> "none"]


-----------------------------------------------------------------------------
(* DeepQLearner *)

MemorySize == 3      \* memory_size passed to the constructor
BatchSize == 2       \* batch_size passed to the constructor
DqnGamma == 990

Temperatures == {1, 2}
EpsMins == {100, 5000}
EpsMaxs == {5000, 10000}

Transitions ==
  {[state |-> 0, action |-> 0, reward |-> SCALE, next_state |-> 1, done |-> FALSE],
   [state |-> 1, action |-> 1, reward |-> 0, next_state |-> 0, done |-> TRUE]}

\* q_net(state)[action]
QValue(th, s, a) == IF (th + s) % 2 = a THEN SCALE ELSE SCALE \div 2

\* ReplayMemory.push: append, the oldest entry is overwritten once full
Push(mem, tr) ==
  IF Len(mem) < MemorySize THEN Append(mem, tr) ELSE Append(Tail(mem), tr)

\* ReplayMemory.sample(batch_size): batch_size distinct positions of the memory
Samples(mem, n) ==
  {s \in SeqsUpTo(1..Len(mem), n) :
     Len(s) = n /\ \A i, j \in 1..n : i < j => s[i] < s[j]}

\* np.exp(-1/temperature), rounded to 1/ESCALE
ExpUnit(T) == IF T = 1 THEN 3679 ELSE 6065

\* np.exp(-float(steps) / temperature) as the steps-th power of exp(-1/temperature)
RECURSIVE ExpNeg(_, _)
ExpNeg(n, T) == IF n = 0 THEN ESCALE ELSE (ExpNeg(n - 1, T) * ExpUnit(T)) \div ESCALE

\* mutant: the decay term is inverted, epsilon grows from eps_min towards eps_max
EpsilonGrowing(emin, emax, n, T) ==
  emin + ((emax - emin) * (ESCALE - ExpNeg(n, T))) \div ESCALE

\* deep_q_learner.py 70-71
Epsilon(emin, emax, n, T) == emin + ((emax - emin) * ExpNeg(n, T)) \div ESCALE

\* mutant: learn also returns early with exactly batch_size transitions
TooFewTransitionsOffByOne(mem) == Len(mem) <= BatchSize

\* deep_q_learner.py 47: the early return of learn
TooFewTransitions(mem) == Len(mem) < BatchSize

\* deep_q_learner.py 65-67: backward(); step(); zero_grad()
DQNOptimizerOps == <<"backward", "step", "zero_grad">>

\* deep_q_learner.py 59-63 with a squared-error criterion
DqnLoss(th, mem, batch) ==
  LET err(i) == LET tr == mem[batch[i]]
                    current  == QValue(th, tr.state, tr.action)
                    maxnext  == MaxOf(QValue(th, tr.next_state, 0),
                                      QValue(th, tr.next_state, 1))
                    expected == tr.reward + FMul(DqnGamma, maxnext)
                IN FMul(current - expected, current - expected)
  IN Mean([i \in 1..Len(batch) |-> err(i)])

\* deep_q_learner.py 39-41: the greedy action
Greedy(th, s) == IF QValue(th, s, 1) > QValue(th, s, 0) THEN 1 ELSE 0

-----------------------------------------------------------------------------
(* Spec: a client of one learner object *)

Zeros(n) == [i \in 1..n |-> 0]

NoDriver == [pc |-> "none"]

\* one actor's trajectory segment: the arguments of compute_returns
Segments ==
  UNION {{[kind |-> "segment", obs |-> obs, action |-> Zeros(T), reward |-> reward,
           next_obs |-> [t \in 1..T |-> IF t < T THEN obs[t + 1] ELSE last_next],
           done |-> done] :
            obs \in [1..T -> Obs], last_next \in Obs,
            reward \in [1..T -> Rewards], done \in [1..T -> BOOLEAN]} : T \in 1..MaxLen}

\* a batch with its return targets and old-policy snapshot: the arguments of learn
Batches ==
  UNION {{[kind |-> "batch", obs |-> obs, action |-> Zeros(N), returns |-> returns,
           old_values |-> old_values, old_log_probs |-> old_log_probs] :
            obs \in [1..N -> Obs], returns \in [1..N -> Rewards],
            old_values \in [1..N -> Values],
            old_log_probs \in [1..N -> LogProbs]} : N \in 1..MaxBatch}

\* ppo_learner.py 10-29; lmbda is read by compute_returns only
InitPPO ==
  /\ sut = "ppo"
  /\ theta \in Thetas
  /\ grad = 0
  /\ args \in Segments \cup Batches
  /\ lmbda \in (IF args.kind = "segment" THEN Lmbdas ELSE {10})
  /\ memory = <<>> /\ steps = 0 /\ eps = 0
  /\ eps_min = 0 /\ eps_max = 0 /\ temperature = 1

\* deep_q_learner.py 10-33
InitDQN ==
  /\ sut = "dqn"
  /\ theta \in Thetas
  /\ lmbda = 0
  /\ grad \in {0, 1}     \* the optimizer and its network are built by the caller
  /\ args = [kind |-> "none"]
  /\ eps_min \in EpsMins /\ eps_max \in EpsMaxs /\ eps_min <= eps_max
  /\ temperature \in Temperatures
  /\ memory = <<>>
  /\ steps = 0
  /\ eps = eps_max

Init ==
  /\ InitPPO \/ InitDQN
  /\ optLog = <<>> /\ applied = 0
  /\ lastCall = NoCall
  /\ drv = NoDriver

\* agent.compute_returns(obs, action, reward, next_obs, done) on one segment
PpoComputeReturns ==
  /\ sut = "ppo"
  /\ args.kind = "segment"
  /\ lastCall' = [kind |-> "compute_returns", th |-> theta,
                  result |-> compute_returns(theta, lmbda, args.obs, args.action,
                                             args.reward, args.next_obs, args.done)]
  /\ UNCHANGED <<sut, learnerVars, dqnVars, args, drv>>

\* agent.compute_old_data(obs, action)
PpoComputeOldData ==
  /\ sut = "ppo"
  /\ args.kind = "batch"
  /\ lastCall' = [kind |-> "compute_old_data", th |-> theta,
                  result |-> compute_old_data(theta, args.obs, args.action)]
  /\ UNCHANGED <<sut, learnerVars, dqnVars, args, drv>>

\* agent.learn(obs, action, reward, next_obs, done, returns, old_values, old_log_probs)
PpoLearn ==
  /\ sut = "ppo"
  /\ args.kind = "batch"
  /\ \E th2 \in Thetas :
       LET after == RunOps(PPOOptimizerOps, grad, applied)
       IN /\ lastCall' = [kind |-> "learn", th |-> theta,
                          result |-> Losses(theta, args.obs, args.action, args.returns,
                                            args.old_values, args.old_log_probs)]
          /\ optLog' = PPOOptimizerOps
          /\ grad' = after[1]
          /\ applied' = after[2]
          /\ theta' = th2
  /\ UNCHANGED <<sut, lmbda, dqnVars, args, drv>>

\* DeepQLearner.act(state); r is the outcome of random.random(), a that of randrange
DqnAct ==
  /\ sut = "dqn"
  /\ \E s \in Obs, r \in {0, ESCALE \div 2, ESCALE - 1}, a \in Acts :
       lastCall' = [kind |-> "act", state |-> s,
                    result |-> IF r < eps THEN a ELSE Greedy(theta, s)]
  /\ UNCHANGED <<sut, learnerVars, dqnVars, args, drv>>

\* DeepQLearner.transition(episode_id, state, action, reward, next_state, done)
DqnTransition ==
  /\ sut = "dqn"
  /\ \E tr \in Transitions :
       /\ memory' = Push(memory, tr)
       /\ lastCall' = [kind |-> "transition", tr |-> tr]
  /\ UNCHANGED <<sut, learnerVars, steps, eps, eps_min, eps_max, temperature, args, drv>>

\* DeepQLearner.learn()
DqnLearn ==
  /\ sut = "dqn"
  /\ steps < MaxSteps
  /\ LET before == [steps |-> steps, eps |-> eps, theta |-> theta,
                    memory |-> memory, grad |-> grad]
     IN IF TooFewTransitions(memory)
        THEN /\ lastCall' = [kind |-> "learn", before |-> before, loss |-> 0,
                                  outcome |-> "returned None"]
             /\ optLog' = <<>>
             /\ UNCHANGED <<theta, grad, applied, steps, eps>>
        ELSE \E batch \in Samples(memory, BatchSize), th2 \in Thetas :
               LET after == RunOps(DQNOptimizerOps, grad, applied)
               IN /\ lastCall' = [kind |-> "learn", before |-> before,
                                  loss |-> DqnLoss(theta, memory, batch),
                                  outcome |-> "returned None"]
                  /\ optLog' = DQNOptimizerOps
                  /\ grad' = after[1]
                  /\ applied' = after[2]
                  /\ theta' = th2
                  /\ steps' = steps + 1
                  /\ eps' = Epsilon(eps_min, eps_max, steps + 1, temperature)
  /\ UNCHANGED <<sut, lmbda, memory, eps_min, eps_max, temperature, args, drv>>

Next ==
  \/ PpoComputeReturns
  \/ PpoComputeOldData
  \/ PpoLearn
  \/ DqnAct
  \/ DqnTransition
  \/ DqnLearn

Spec == Init /\ [][Next]_vars

-----------------------------------------------------------------------------
(* experiments/ppo.py: main() and train(), statement by statement *)

NumProcesses == 2     \* args.num_processes
RolloutSteps == 1     \* args.rollout_steps
MaxEpochs == 1        \* largest n_epochs
MinibatchSize == 2    \* args.batch_size

Actors == 1..NumProcesses

\* runner.collect(agent, steps=args.rollout_steps, store=True): one segment of
\* exactly rollout_steps transitions per actor
ActorSegments ==
  {[obs |-> obs, action |-> action, reward |-> reward,
    next_obs |-> [t \in 1..RolloutSteps |->
                    IF t < RolloutSteps THEN obs[t + 1] ELSE last_next],
    done |-> [t \in 1..RolloutSteps |-> t = RolloutSteps /\ last_done]] :
     obs \in [1..RolloutSteps -> Obs], action \in [1..RolloutSteps -> Acts],
     reward \in [1..RolloutSteps -> Rewards], last_next \in Obs, last_done \in BOOLEAN}

\* runner.is_done(): whether the most recent step of each actor ended an episode
IsDone(history_list) ==
  [i \in Actors |-> history_list[i].done[Len(history_list[i].done)]]

RECURSIVE ConcatUpTo(_, _)
ConcatUpTo(seqs, n) == IF n = 0 THEN <<>> ELSE ConcatUpTo(seqs, n - 1) \o seqs[n]

\* EpisodeRunner.merge_histories: concatenation in actor order, five sequences
MergeHistories(history_list) ==
  <<ConcatUpTo([i \in Actors |-> history_list[i].obs], NumProcesses),
    ConcatUpTo([i \in Actors |-> history_list[i].action], NumProcesses),
    ConcatUpTo([i \in Actors |-> history_list[i].reward], NumProcesses),
    ConcatUpTo([i \in Actors |-> history_list[i].next_obs], NumProcesses),
    ConcatUpTo([i \in Actors |-> history_list[i].done], NumProcesses)>>

\* ppo.py 27: np.concatenate([agent.compute_returns(*history) ...])
ConcatReturns(th, lm, history_list) ==
  ConcatUpTo([i \in Actors |->
                compute_returns(th, lm, history_list[i].obs, history_list[i].action,
                                history_list[i].reward, history_list[i].next_obs,
                                history_list[i].done)], NumProcesses)

\* ppo.py 33: positional arguments of the call
\* agent.learn(*batch_history, returns, old_values, old_log_probs, minibatch_idx)
LearnCallArgs(batch_history) == Len(batch_history) + 4

NoBatch == <<>>
NoSnapshot == [values |-> <<>>, log_probs |-> <<>>]

\* ppo.py 10-16 and 78-96: the state of main/train before agent.train()
InitDriver ==
  /\ sut = "driver"
  /\ theta \in Thetas
  /\ lmbda \in Lmbdas
  /\ grad = 0 /\ optLog = <<>> /\ applied = 0
  /\ args = [kind |-> "none"]
  /\ lastCall = NoCall
  /\ memory = <<>> /\ steps = 0 /\ eps = 0
  /\ eps_min = 0 /\ eps_max = 0 /\ temperature = 1
  /\ \E num_total_steps \in {k * RolloutSteps * NumProcesses : k \in 0..MaxEpochs}
                             \cup {RolloutSteps * NumProcesses - 1},
        ppo_epochs \in 0..MaxPpoEpochs :
       drv = [pc |-> "main",
              n_epochs |-> (num_total_steps \div RolloutSteps) \div NumProcesses,
              ppo_epochs |-> ppo_epochs,
              epoch |-> 0,
              runner |-> "not constructed",
              logger |-> "not constructed",
              history_list |-> <<>>,
              done_list |-> <<>>,
              batch_history |-> NoBatch,
              returns |-> <<>>,
              old |-> NoSnapshot,
              old_data_calls |-> 0,
              learn_issued |-> 0,
              learn_returned |-> 0,
              losses_bound |-> FALSE,
              i |-> 0,
              n_episodes |-> 0,
              n_timesteps |-> 0,
              epoch_rollout_steps |-> 0,
              episode_len |-> [i \in Actors |-> 0],
              episode_reward |-> [i \in Actors |-> 0],
              episode_actions |-> [i \in Actors |-> <<>>],
              runner_resets |-> [i \in Actors |-> 0],
              agent_resets |-> 0,
              exc |-> "none"]

\* ppo.py 78-98 and 10-18: main constructs agent, runner and logger and enters train
MainSetup ==
  /\ sut = "driver" /\ drv.pc = "main"
  /\ drv' = [drv EXCEPT !.pc = "loop", !.runner = "running", !.logger = "open"]
  /\ UNCHANGED <<sut, learnerVars, dqnVars, args, lastCall>>

\* ppo.py 20: for epoch in range(1, n_epochs + 1)
LoopHead ==
  /\ sut = "driver" /\ drv.pc = "loop"
  /\ IF drv.epoch < drv.n_epochs
     THEN drv' = [drv EXCEPT !.pc = "collect", !.epoch = @ + 1,
                             !.old_data_calls = 0, !.learn_issued = 0,
                             !.learn_returned = 0,
                             !.runner_resets = [i \in Actors |-> 0]]
     ELSE drv' = [drv EXCEPT !.pc = "stop"]
  /\ UNCHANGED <<sut, learnerVars, dqnVars, args, lastCall>>

\* ppo.py 22-27: collect, is_done, merge_histories, compute_returns per actor
Collect ==
  /\ sut = "driver" /\ drv.pc = "collect"
  /\ \E history_list \in [Actors -> ActorSegments] :
       drv' = [drv EXCEPT !.pc = "old_data",
                          !.history_list = history_list,
                          !.done_list = IsDone(history_list),
                          !.batch_history = MergeHistories(history_list),
                          !.returns = ConcatReturns(theta, lmbda, history_list)]
  /\ UNCHANGED <<sut, learnerVars, dqnVars, args, lastCall>>

\* ppo.py 30: old_values, old_log_probs = agent.compute_old_data(*batch_history[:2])
ComputeOldData ==
  /\ sut = "driver" /\ drv.pc = "old_data"
  /\ drv' = [drv EXCEPT !.pc = "learn",
                        !.old = compute_old_data(theta, drv.batch_history[1],
                                                 drv.batch_history[2]),
                        !.old_data_calls = @ + 1]
  /\ UNCHANGED <<sut, learnerVars, dqnVars, args, lastCall>>

\* ppo.py 31-33: one iteration of the learn loop, or its end.  The call binds
\* its positional arguments to learn's parameters before the body runs; a
\* call with a different number of arguments raises TypeError, which nothing
\* in train or main catches.
LearnLoop ==
  /\ sut = "driver" /\ drv.pc = "learn"
  /\ IF drv.learn_issued < drv.ppo_epochs
     THEN \E minibatch_idx \in [1..MinibatchSize -> 1..Len(drv.returns)], th2 \in Thetas :
            IF LearnCallArgs(drv.batch_history) = LearnArity
            THEN LET after == RunOps(PPOOptimizerOps, grad, applied)
                 IN /\ lastCall' = [kind |-> "learn", th |-> theta,
                                    result |-> Losses(theta, drv.batch_history[1],
                                                      drv.batch_history[2], drv.returns,
                                                      drv.old.values, drv.old.log_probs)]
                    /\ optLog' = PPOOptimizerOps
                    /\ grad' = after[1]
                    /\ applied' = after[2]
                    /\ theta' = th2
                    /\ drv' = [drv EXCEPT !.learn_issued = @ + 1,
                                          !.learn_returned = @ + 1,
                                          !.losses_bound = TRUE]
            ELSE /\ drv' = [drv EXCEPT !.pc = "crashed", !.exc = "TypeError",
                                       !.learn_issued = @ + 1]
                 /\ UNCHANGED <<theta, grad, optLog, applied, lastCall>>
     ELSE /\ drv' = [drv EXCEPT !.pc = "stats", !.i = 1, !.epoch_rollout_steps = 0]
          /\ UNCHANGED <<theta, grad, optLog, applied, lastCall>>
  /\ UNCHANGED <<sut, lmbda, dqnVars, args>>

\* ppo.py 38-56: one iteration of the statistics loop for actor drv.i
StatsStep ==
  /\ sut = "driver" /\ drv.pc = "stats" /\ drv.i <= NumProcesses
  /\ LET i       == drv.i
         history == drv.history_list[i]
         len     == drv.episode_len[i] + Len(history.reward)
         rew     == drv.episode_reward[i] + SumSeq(history.reward)
         acts    == drv.episode_actions[i] \o history.action
     IN IF drv.done_list[i]
        THEN drv' = [drv EXCEPT !.epoch_rollout_steps = @ + Len(history.reward),
                                !.n_episodes = @ + 1,
                                !.episode_len[i] = 0,
                                !.episode_reward[i] = 0,
                                !.episode_actions[i] = <<>>,
                                !.runner_resets[i] = @ + 1,
                                !.agent_resets = @ + 1,
                                !.i = i + 1]
        ELSE drv' = [drv EXCEPT !.epoch_rollout_steps = @ + Len(history.reward),
                                !.episode_len[i] = len,
                                !.episode_reward[i] = rew,
                                !.episode_actions[i] = acts,
                                !.i = i + 1]
  /\ UNCHANGED <<sut, learnerVars, dqnVars, args, lastCall>>

\* ppo.py 58-74: logging, save and evaluation.  Line 62 reads actor_loss,
\* which is bound only by a learn call that returned.
LogEpoch ==
  /\ sut = "driver" /\ drv.pc = "stats" /\ drv.i > NumProcesses
  /\ IF drv.losses_bound
     THEN drv' = [drv EXCEPT !.pc = "loop",
                             !.n_timesteps = @ + drv.epoch_rollout_steps]
     ELSE drv' = [drv EXCEPT !.pc = "crashed", !.exc = "UnboundLocalError",
                             !.n_timesteps = @ + drv.epoch_rollout_steps]
  /\ UNCHANGED <<sut, learnerVars, dqnVars, args, lastCall>>

\* ppo.py 100: runner.stop()
RunnerStop ==
  /\ sut = "driver" /\ drv.pc = "stop"
  /\ drv' = [drv EXCEPT !.pc = "close", !.runner = "stopped"]
  /\ UNCHANGED <<sut, learnerVars, dqnVars, args, lastCall>>

\* ppo.py 101: logger.close()
LoggerClose ==
  /\ sut = "driver" /\ drv.pc = "close"
  /\ drv' = [drv EXCEPT !.pc = "done", !.logger = "closed"]
  /\ UNCHANGED <<sut, learnerVars, dqnVars, args, lastCall>>

NextDriver ==
  \/ MainSetup
  \/ LoopHead
  \/ Collect
  \/ ComputeOldData
  \/ LearnLoop
  \/ StatsStep
  \/ LogEpoch
  \/ RunnerStop
  \/ LoggerClose

SpecDriver == InitDriver /\ [][NextDriver]_vars

-----------------------------------------------------------------------------
(* Properties of the driver, checked under SpecDriver *)

MainEnded == sut = "driver" /\ drv.pc \in {"done", "crashed"}

\* the learn loop of the current cycle is over, however it ended
LearnPhaseOver ==
  /\ sut = "driver"
  /\ drv.epoch >= 1
  /\ drv.pc \in {"stats", "loop", "stop", "close", "done"}
     \/ (drv.pc = "crashed" /\ drv.old_data_calls >= 1)

\* the current cycle is over, however it ended
CycleOver ==
  /\ sut = "driver"
  /\ drv.epoch >= 1
  /\ drv.pc \in {"loop", "stop", "close", "done", "crashed"}

\* C3: in every rollout cycle compute_old_data is invoked exactly once, after
\* collect/merge and before the first learn call, and every one of the
\* ppo_epochs learn calls of the cycle receives that same snapshot, which no
\* learn call modifies and which is never recomputed between learn calls.
C3_SnapshotSharedByAllLearnCalls ==
  /\ (sut = "driver" /\ drv.learn_issued >= 1) => drv.old_data_calls = 1
  /\ LearnPhaseOver =>
       /\ drv.old_data_calls = 1
       /\ drv.learn_returned = drv.ppo_epochs
       /\ Len(drv.old.values) = Len(drv.returns)

\* C4: learn accepts the minibatch_indices argument the training loop passes
\* last, so every learn call the training loop makes completes and returns
\* the three loss components.
C4_LearnCallCompletes ==
  sut = "driver" =>
    /\ drv.exc # "TypeError"
    /\ drv.learn_returned = drv.learn_issued
    /\ drv.learn_issued >= 1 => drv.losses_bound

\* C6: whenever main terminates after the MultiEpisodeRunner was constructed,
\* also because an error raised inside train escapes, runner.stop() has been
\* called.
C6_RunnerStoppedWhenMainEnds ==
  (MainEnded /\ drv.runner # "not constructed") => drv.runner = "stopped"

\* C7: in each cycle runner.reset(i) and agent.reset() are invoked exactly
\* once for every actor whose is_done() flag is true and never for one whose
\* flag is false, after all learn calls of the cycle and before the next
\* collect, and at that moment the actor's accumulators are empty again.
C7_ResetOncePerDoneActor ==
  /\ sut = "driver" =>
       \A i \in Actors :
         drv.runner_resets[i] >= 1 =>
           /\ drv.done_list[i]
           /\ drv.runner_resets[i] = 1
           /\ drv.learn_returned = drv.ppo_epochs
  /\ CycleOver =>
       \A i \in Actors :
         drv.done_list[i] =>
           /\ drv.runner_resets[i] = 1
           /\ drv.episode_len[i] = 0
           /\ drv.episode_reward[i] = 0
           /\ drv.episode_actions[i] = <<>>

-----------------------------------------------------------------------------
(* Properties of the learners, checked under Spec *)

Count(ops, x) == Cardinality({i \in DOMAIN ops : ops[i] = x})
Pos(ops, x) == CHOOSE i \in DOMAIN ops : ops[i] = x

ReturnedFromComputeReturns == sut = "ppo" /\ lastCall.kind = "compute_returns"
ReturnedFromPpoLearn == sut = "ppo" /\ lastCall.kind = "learn"
ReturnedFromDqnLearn == sut = "dqn" /\ lastCall.kind = "learn"
EffectiveDqnLearn == ReturnedFromDqnLearn /\ Len(lastCall.before.memory) >= BatchSize

\* G[t] of section 4.2: gae(t) = delta(t) + gamma*lambda*gae(t+1), gae(T+1) = 0
RECURSIVE GaeAt(_, _, _, _)
GaeAt(t, reward, V, lm) ==
  IF t > Len(reward) THEN 0
  ELSE (reward[t] + FMul(Gamma, V[t + 1]) - V[t])
       + FMul(FMul(Gamma, lm), GaeAt(t + 1, reward, V, lm))

TargetAt(t, reward, V, lm) == GaeAt(t, reward, V, lm) + V[t]

\* C1: compute_returns returns the return targets in the order of the input
\* segment: element t of the result is G[t] of the backward recurrence; with
\* lambda = 1, all values 0 and rewards [1,1,1] the first element is the
\* largest and the last element is 1.
C1_ReturnsInSegmentOrder ==
  ReturnedFromComputeReturns =>
    LET V == [t \in 1..(Len(args.obs) + 1) |->
                IF t <= Len(args.obs) THEN Value(lastCall.th, args.obs[t])
                ELSE IF args.done[Len(args.done)] THEN 0
                     ELSE Value(lastCall.th, args.next_obs[Len(args.next_obs)])]
    IN /\ Len(lastCall.result) = Len(args.reward)
       /\ \A t \in 1..Len(args.reward) :
            lastCall.result[t] = TargetAt(t, args.reward, V, lmbda)
       /\ (/\ lmbda = SCALE
           /\ args.reward = <<SCALE, SCALE, SCALE>>
           /\ \A t \in 1..4 : V[t] = 0)
          => /\ lastCall.result[3] = SCALE
             /\ lastCall.result[1] > lastCall.result[2]
             /\ lastCall.result[2] > lastCall.result[3]

\* C2: the done flags influence compute_returns only through the trailing
\* bootstrap decision: done[T-1] true forces V[T] = 0 and makes the result
\* independent of the critic's estimate of next_obs[T-1]; done[T-1] false
\* uses that estimate; done[t] for t < T-1 never changes the result.
C2_DoneOnlyThroughBootstrap ==
  ReturnedFromComputeReturns =>
    LET T  == Len(args.obs)
        th == lastCall.th
        V  == ValuesWithBootstrap(th, args.obs, args.next_obs, args.done)
        WithLastNext(o) == [args.next_obs EXCEPT ![T] = o]
    IN /\ args.done[T] => V[T + 1] = 0
       /\ ~args.done[T] => V[T + 1] = Value(th, args.next_obs[T])
       /\ args.done[T] =>
            \A o \in Obs :
              compute_returns(th, lmbda, args.obs, args.action, args.reward,
                              WithLastNext(o), args.done) = lastCall.result
       /\ \A done2 \in {d \in SeqsUpTo(BOOLEAN, T) : Len(d) = T} :
            done2[T] = args.done[T] =>
              compute_returns(th, lmbda, args.obs, args.action, args.reward,
                              args.next_obs, done2) = lastCall.result
       /\ \E k \in 1..T : lastCall.result[k] = args.reward[T] + FMul(Gamma, V[T + 1])

C2_Witness ==
  /\ ReturnedFromComputeReturns
  /\ Len(args.obs) >= 2
  /\ args.done[1]
  /\ args.done[Len(args.done)]
  /\ Value(lastCall.th, args.next_obs[Len(args.next_obs)]) # 0
  /\ args.reward[Len(args.reward)] = SCALE

\* C5 as stated: every effective learn call performs exactly one backward
\* pass followed by exactly one optimizer step and zeroes the gradients after
\* that step, so the accumulated gradients are zero whenever learn has returned.
C5_GradientsZeroAfterLearn ==
  (ReturnedFromPpoLearn \/ EffectiveDqnLearn) =>
    /\ Count(optLog, "backward") = 1
    /\ Count(optLog, "step") = 1
    /\ Pos(optLog, "backward") < Pos(optLog, "step")
    /\ Count(optLog, "zero_grad") = 1
    /\ Pos(optLog, "step") < Pos(optLog, "zero_grad")
    /\ grad = 0

\* C5 amended: every effective learn call performs exactly one backward pass
\* followed by exactly one optimizer step; DeepQLearner.learn zeroes the
\* gradients after the step (they are zero once it has returned),
\* BasePPOLearner.learn zeroes them before the backward pass (its step applies
\* the gradient of this call's loss alone, and that gradient is still
\* accumulated once it has returned).
C5_OneBackwardOneStep ==
  (ReturnedFromPpoLearn \/ EffectiveDqnLearn) =>
    /\ Count(optLog, "backward") = 1
    /\ Count(optLog, "step") = 1
    /\ Pos(optLog, "backward") < Pos(optLog, "step")
    /\ Count(optLog, "zero_grad") = 1
    /\ sut = "dqn" => Pos(optLog, "step") < Pos(optLog, "zero_grad") /\ grad = 0
    /\ sut = "ppo" => /\ Pos(optLog, "zero_grad") < Pos(optLog, "backward")
                      /\ applied = 1
                      /\ grad = 1

C5_Witness ==
  /\ ReturnedFromPpoLearn
  /\ lastCall.th # theta
  /\ grad = 1
  /\ applied = 1

\* C8: DeepQLearner.learn is a silent no-op while the memory holds fewer than
\* batch_size transitions (nothing raised, no optimizer step, step counter,
\* epsilon, parameters and memory unchanged); with at least batch_size
\* transitions each learn call performs one optimizer step and advances the
\* step counter by exactly one.
C8_LearnNoOpUntilBatch ==
  ReturnedFromDqnLearn =>
    /\ lastCall.outcome = "returned None"
    /\ memory = lastCall.before.memory
    /\ IF Len(lastCall.before.memory) < BatchSize
       THEN /\ optLog = <<>>
            /\ steps = lastCall.before.steps
            /\ eps = lastCall.before.eps
            /\ theta = lastCall.before.theta
            /\ grad = lastCall.before.grad
       ELSE /\ Count(optLog, "step") = 1
            /\ steps = lastCall.before.steps + 1

C8_Witness ==
  /\ ReturnedFromDqnLearn
  /\ Len(memory) = BatchSize - 1
  /\ steps = 0
  /\ eps = eps_max

RECURSIVE Pow2(_)
Pow2(n) == IF n = 0 THEN 1 ELSE 2 * Pow2(n - 1)

EpsilonInRange ==
  sut = "dqn" =>
    /\ eps_min <= eps /\ eps <= eps_max
    /\ steps = 0 => eps = eps_max
    /\ eps = eps_min + ((eps_max - eps_min) * ExpNeg(steps, temperature)) \div ESCALE
    /\ (eps - eps_min) * Pow2(steps \div temperature) <= eps_max - eps_min

EpsilonStep ==
  sut = "dqn" =>
    /\ eps' <= eps
    /\ eps' # eps => /\ lastCall'.kind = "learn"
                     /\ Len(memory) >= BatchSize
                     /\ steps' = steps + 1

\* C9: with eps_min <= eps_max and temperature > 0 the exploration
\* probability starts at eps_max, never increases, stays within
\* [eps_min, eps_max], is the function
\* eps_min + (eps_max - eps_min) * exp(-steps/temperature) of the step counter
\* alone, changes only in an effective learn call, and approaches eps_min
\* (its distance to eps_min at least halves every temperature steps).
C9_EpsilonSchedule == []EpsilonInRange /\ [][EpsilonStep]_vars

C9_Witness ==
  /\ sut = "dqn"
  /\ steps >= 2
  /\ eps_min < eps
  /\ eps < eps_max
  /\ lastCall.kind = "act"

\* the surrogate term of one sample, by cases on the sign of the advantage
SurrogateTerm(ratio, A) ==
  IF A >= 0
  THEN FMul(MinOf(ratio, SCALE + ClipRatio), A)
  ELSE FMul(MaxOf(ratio, SCALE - ClipRatio), A)

\* C10: actor_loss = -mean(min(ratio*A, clip(ratio, 1-clip_ratio,
\* 1+clip_ratio)*A)) with A = return - old_value (the frozen old value); for
\* clip_ratio 0.2 a ratio of 1.5 is clamped to 1.2, so a positive advantage
\* reports the clipped term and a negative advantage the unclipped one.
C10_ClippedSurrogate ==
  ReturnedFromPpoLearn =>
    LET N     == Len(args.obs)
        ratio == [i \in 1..N |->
                    ExpFix(LogProb(lastCall.th, args.obs[i], args.action[i])
                           - args.old_log_probs[i])]
        A     == [i \in 1..N |-> args.returns[i] - args.old_values[i]]
    IN /\ lastCall.result.actor = -Mean([i \in 1..N |-> SurrogateTerm(ratio[i], A[i])])
       /\ (N = 1 /\ ratio[1] = 1500 /\ A[1] > 0)
            => lastCall.result.actor = -((1200 * A[1]) \div SCALE)
       /\ (N = 1 /\ ratio[1] = 1500 /\ A[1] < 0)
            => lastCall.result.actor = -((1500 * A[1]) \div SCALE)

C10_Witness ==
  /\ ReturnedFromPpoLearn
  /\ Len(args.obs) = 1
  /\ LogProb(lastCall.th, args.obs[1], args.action[1]) - args.old_log_probs[1] = 4054
  /\ args.returns[1] - args.old_values[1] = SCALE
  /\ Value(lastCall.th, args.obs[1]) # args.old_values[1]
  /\ lastCall.result.actor = -1200

=============================================================================
